---- MODULE Spec2Model ----
(***************************************************************************)
(* Model of the two build helpers of picoclaw-helm:                        *)
(*   .github/scripts/validate_config.py  (the config checker)              *)
(*   patch_picoclaw_dockerfile.py        (the Dockerfile patcher)          *)
(*                                                                         *)
(* Three specifications share the module:                                  *)
(*   Spec         one run of validate_config.main(), call_llm included     *)
(*   SpecFlatten  _flatten applied to bounded nested objects               *)
(*   SpecPatch    the Dockerfile patcher run twice on a bounded text       *)
(***************************************************************************)
EXTENDS Integers, Sequences, FiniteSets, TLC

VARIABLES
    \* ---- validate_config.main() ----
    pc,             \* position of the run
    env_api_key,    \* LLM_API_KEY as found in the environment
    env_ref,        \* UPSTREAM_VERSION as found in the environment
    gh_output,      \* TRUE iff GITHUB_OUTPUT names a file
    files_present,  \* which of server.py / index.html exist on disk
    server_src,     \* the text of server.py on disk
    outputs,        \* lines appended to the GITHUB_OUTPUT file, in order
    exit_code,      \* "none" while running, "0", "1", or "exception"
    uncaught,       \* the exception that ended the run, "none" if none
    fetches,        \* refs handed to fetch_url, in order
    upstream_config,\* parsed upstream JSON
    files_read,     \* TRUE once read_file was called
    current_config, \* result of extract_default_config_json(server_src)
    analysis,       \* the analysis record
    attempt,        \* call_llm: loop variable
    backoff,        \* call_llm: current backoff
    sleeps,         \* call_llm: arguments of time.sleep, in order
    requests,       \* call_llm: number of urlopen calls
    last_outcome,   \* call_llm: what the last request met
    retry_after_used, \* call_llm: TRUE once a Retry-After header set a wait
    llm_result,     \* how call_llm ended: "none", "returned" or "raised"
    llm_error,      \* the exception call_llm raised ("none" if none)
    error_file,     \* TRUE once latest_llm_error.txt is written
    response,       \* the value call_llm returned
    result,         \* extract_json_from_response(response)
    files_modified, \* the local flag of main()
    written,        \* the target files overwritten by write_file, in order
    \* ---- _flatten ----
    fobj,           \* the nested object
    fflat,          \* _flatten(fobj), or NotRun
    \* ---- patch_picoclaw_dockerfile ----
    s,              \* the Dockerfile text (token sequence)
    gomod,          \* the go.mod text (token sequence) or Absent
    chunks,         \* number of pieces the input text was built from
    runs,           \* number of patcher runs so far
    original,       \* the text before the first run
    after_first     \* the text after the first run

checker_vars == <<pc, env_api_key, env_ref, gh_output, files_present,
                  server_src, outputs, exit_code, uncaught, fetches,
                  upstream_config, files_read, current_config, analysis,
                  attempt, backoff, sleeps, requests, last_outcome,
                  retry_after_used, llm_result, llm_error, error_file,
                  response, result, files_modified, written>>
flatten_vars == <<fobj, fflat>>
patch_vars == <<s, gomod, chunks, runs, original, after_first>>
vars == <<checker_vars, flatten_vars, patch_vars>>

(***************************************************************************)
(* JSON / Python values.  A value is a tagged record; a dict holds its     *)
(* items as a sequence of <<key, value>> pairs with distinct keys, in      *)
(* insertion order.  Keys are strings.                                     *)
(***************************************************************************)
Num(n) == [t |-> "num", n |-> n]
List(l) == [t |-> "list", l |-> l]
Dict(d) == [t |-> "dict", d |-> d]
PyNone == [t |-> "none"]

\* A Python dict {str: object} as a TLA+ function; the empty dict.
EmptyItems == [k \in {} |-> PyNone]

\* dict.update(other): the entries of other win.
Update(items, other) ==
    [k \in DOMAIN items \cup DOMAIN other |->
        IF k \in DOMAIN other THEN other[k] ELSE items[k]]

\* NewKey that forgets the prefix
NewKeyNoPrefix(prefix, k) == k

\* new_key = f"{prefix}.{k}" if prefix else k
NewKey(prefix, k) == IF prefix # "" THEN prefix \o "." \o k ELSE k

RECURSIVE _flatten(_, _)
RECURSIVE FlattenItems(_, _, _, _)
\* the for loop of _flatten over obj.items(), from item i on
FlattenItems(d, prefix, i, items) ==
    IF i > Len(d) THEN items
    ELSE FlattenItems(d, prefix, i + 1,
            Update(items, _flatten(d[i][2], NewKey(prefix, d[i][1]))))

_flatten(obj, prefix) ==
    IF obj.t = "dict" THEN FlattenItems(obj.d, prefix, 1, EmptyItems)
    ELSE (prefix :> obj)

(***************************************************************************)
(* SpecFlatten: _flatten on every nested object of a bounded family.       *)
(***************************************************************************)
MaxWidth == 2

NotRun == [t |-> "notrun"]
Keys == {"a", "b", "a.b", ""}
InnerKeys == {"b", ""}
Leaf == {Num(1), List(<<Num(1), Num(2)>>)}
Inner1 == {Dict(<<>>)} \cup {Dict(<< <<k, v>> >>) : k \in InnerKeys, v \in Leaf}
Inner2 == {Dict(<< <<k, v>> >>) : k \in InnerKeys, v \in Inner1}
Values == Leaf \cup Inner1 \cup Inner2

\* sequences of n distinct keys
KeySeqs(n) == {ks \in [1..n -> Keys] : \A i, j \in 1..n : i # j => ks[i] # ks[j]}
\* obj is a mapping of at most MaxWidth entries with distinct keys, in any
\* insertion order, each entry a leaf or a mapping nested up to two deep
FlattenInit ==
    /\ \E n \in 0..MaxWidth :
          \E ks \in KeySeqs(n), vs \in [1..n -> Values] :
              fobj = Dict([i \in 1..n |-> <<ks[i], vs[i]>>])
    /\ fflat = NotRun

FlattenIdle ==
    /\ fobj = Dict(<<>>)
    /\ fflat = NotRun

\* flat = _flatten(obj)
Flatten ==
    /\ fflat = NotRun
    /\ fflat' = [t |-> "flat", items |-> _flatten(fobj, "")]
    /\ UNCHANGED <<fobj, checker_vars, patch_vars>>

(***************************************************************************)
(* patch_picoclaw_dockerfile.py.  A text is a sequence of tokens; "\n" and *)
(* " " are the whitespace tokens (\s), every other token is a run of       *)
(* non-whitespace characters.  The regular expressions are matched token   *)
(* by token as Python's re does: (?m) anchors, greedy \s runs that may     *)
(* cross line ends, leftmost match first.                                  *)
(***************************************************************************)
Absent == <<"<absent>">>
NoMatch == 0

IsSpace(tok) == tok \in {" ", "\n"}
\* [0-9.]+ at token level: a run of these tokens
IsVersion(tok) == tok \in {"1.20", "1.22", "1.22.1"}
\* [0-9]+(?:\.[0-9]+)? at token level: exactly one of these tokens
IsGoVersion(tok) == tok \in {"1.20", "1.22"}

\* (?m)^ before token i
AtLineStart(t, i) == i = 1 \/ (i - 1 <= Len(t) /\ t[i - 1] = "\n")
\* (?m)$ before token i
AtLineEnd(t, i) == i = Len(t) + 1 \/ (i <= Len(t) /\ t[i] = "\n")
Tok(t, i) == IF i >= 1 /\ i <= Len(t) THEN t[i] ELSE "<eof>"

\* the position after the greedy run of \s tokens that starts at i
SpaceRunEnd(t, i) ==
    IF i > Len(t) THEN i
    ELSE CHOOSE j \in i..(Len(t) + 1) :
            /\ \A k \in i..(j - 1) : IsSpace(t[k])
            /\ ~IsSpace(Tok(t, j))
\* the position after the greedy run of [0-9.] tokens that starts at i
VersionRunEnd(t, i) ==
    IF i > Len(t) THEN i
    ELSE CHOOSE j \in i..(Len(t) + 1) :
            /\ \A k \in i..(j - 1) : IsVersion(t[k])
            /\ ~IsVersion(Tok(t, j))

\* \s*$ from position i: greedy, backing off to the last line end in the run
TrailingSpaceEnd(t, i) ==
    LET ends == {e \in i..SpaceRunEnd(t, i) : AtLineEnd(t, e)}
    IN IF ends = {} THEN NoMatch ELSE CHOOSE e \in ends : \A f \in ends : f <= e

Slice(t, i, j) == IF j < i THEN <<>> ELSE SubSeq(t, i, j)

\* ^\s*go\s+([0-9]+(?:\.[0-9]+)?)\s*$ matched at position i of go.mod:
\* the position of group 1, or NoMatch
GoLineAt(t, i) ==
    LET g == SpaceRunEnd(t, i)
        v == SpaceRunEnd(t, g + 1)
    IN IF /\ AtLineStart(t, i)
          /\ Tok(t, g) = "go"
          /\ v > g + 1
          /\ IsGoVersion(Tok(t, v))
          /\ TrailingSpaceEnd(t, v + 1) # NoMatch
       THEN v ELSE NoMatch

\* required_go: None unless go.mod exists and re.search finds a go line
RequiredGo(g) ==
    IF g = Absent THEN "None"
    ELSE LET hits == {i \in 1..Len(g) : GoLineAt(g, i) # NoMatch}
         IN IF hits = {} THEN "None"
            ELSE g[GoLineAt(g, CHOOSE i \in hits : \A h \in hits : i <= h)]

\* ^(FROM\s+golang:)[0-9.]+(-alpine\s+AS\s+builder\s*)$ matched at position
\* i: <<end of group 1, start of group 2, end of the match>>, <<>> if none
FromLineAt(t, i) ==
    LET g == SpaceRunEnd(t, i + 1)
        a == VersionRunEnd(t, g + 1)
        k == SpaceRunEnd(t, a + 1)
        b == SpaceRunEnd(t, k + 1)
        e == TrailingSpaceEnd(t, b + 1)
    IN IF /\ AtLineStart(t, i)
          /\ Tok(t, i) = "FROM"
          /\ g > i + 1
          /\ Tok(t, g) = "golang:"
          /\ a > g + 1
          /\ Tok(t, a) = "-alpine"
          /\ k > a + 1
          /\ Tok(t, k) = "AS"
          /\ b > k + 1
          /\ Tok(t, b) = "builder"
          /\ e # NoMatch
       THEN <<g, a, e>> ELSE <<>>

RECURSIVE SubGoVersionFrom(_, _, _)
\* re.sub(..., rf"\g<1>{required_go}\2", s) from position i on
SubGoVersionFrom(t, required_go, i) ==
    IF i > Len(t) THEN <<>>
    ELSE LET m == FromLineAt(t, i)
         IN IF m = <<>>
            THEN <<t[i]>> \o SubGoVersionFrom(t, required_go, i + 1)
            ELSE Slice(t, i, m[1]) \o <<required_go>> \o Slice(t, m[2], m[3] - 1)
                 \o SubGoVersionFrom(t, required_go, m[3])

SubGoVersion(t, required_go) == SubGoVersionFrom(t, required_go, 1)

OldHome == <<"/root", "/.picoclaw">>
NewHome == <<"/home", "/picoclaw", "/.picoclaw">>

RECURSIVE ReplaceFrom(_, _, _, _)
\* str.replace(old, new): left to right, non-overlapping
ReplaceFrom(t, old, new, i) ==
    IF i > Len(t) THEN <<>>
    ELSE IF i + Len(old) - 1 <= Len(t) /\ SubSeq(t, i, i + Len(old) - 1) = old
         THEN new \o ReplaceFrom(t, old, new, i + Len(old))
         ELSE <<t[i]>> \o ReplaceFrom(t, old, new, i + 1)

\* s.replace("/root/.picoclaw", "/home/picoclaw/.picoclaw")
ReplaceHome(t) == ReplaceFrom(t, OldHome, NewHome, 1)

\* HasUser without the (?m) flag: ^ only at the start of the text
HasUserNoMultiline(t) ==
    LET u == SpaceRunEnd(t, 1)
    IN Len(t) >= 1 /\ Tok(t, u) = "USER" /\ IsSpace(Tok(t, u + 1))

\* re.search(r"(?m)^\s*USER\s+", s)
HasUser(t) ==
    \E i \in 1..Len(t) :
        LET u == SpaceRunEnd(t, i)
        IN /\ AtLineStart(t, i)
           /\ Tok(t, u) = "USER"
           /\ IsSpace(Tok(t, u + 1))

\* ^\s*ENTRYPOINT\s+\["picoclaw"\]\s*$ matched at position i
EntrypointAt(t, i) ==
    LET e == SpaceRunEnd(t, i)
        p == SpaceRunEnd(t, e + 1)
    IN /\ AtLineStart(t, i)
       /\ Tok(t, e) = "ENTRYPOINT"
       /\ p > e + 1
       /\ Tok(t, p) = "[\"picoclaw\"]"
       /\ TrailingSpaceEnd(t, p + 1) # NoMatch

\* m.start() of re.search for the entrypoint line, or NoMatch
EntrypointStart(t) ==
    LET hits == {i \in 1..Len(t) : EntrypointAt(t, i)}
    IN IF hits = {} THEN NoMatch ELSE CHOOSE i \in hits : \A h \in hits : i <= h

\* the injected block, after lstrip("\n"); one token per word of a directive
\* line the regular expressions can see, one token for any other line
InjectBlock ==
    << "# Non-root runtime user (injected by downstream build)", "\n",
       "ARG", " ", "PICOCLAW_USER=picoclaw", "\n",
       "ARG", " ", "PICOCLAW_UID=1000", "\n",
       "ARG", " ", "PICOCLAW_HOME=/home/${PICOCLAW_USER}", "\n",
       "ENV", " ", "HOME=${PICOCLAW_HOME}", "\n",
       "\n",
       "RUN set -eux; addgroup; adduser; mkdir -p ${PICOCLAW_HOME}/.picoclaw/workspace/skills; cp; chown", "\n",
       "\n",
       "WORKDIR", " ", "${PICOCLAW_HOME}", "\n",
       "USER", " ", "${PICOCLAW_UID}:${PICOCLAW_UID}", "\n" >>

\* s = s[:m.start()] + inject + s[m.start():]
Inject(t) ==
    LET m == EntrypointStart(t)
    IN IF m = NoMatch THEN t
       ELSE Slice(t, 1, m - 1) \o InjectBlock \o Slice(t, m, Len(t))

\* lines 11-25: the text after the version and the home-path rewrites
Rewrite(t, g) ==
    LET required_go == RequiredGo(g)
        s1 == IF required_go # "None" THEN SubGoVersion(t, required_go) ELSE t
    IN ReplaceHome(s1)

\* the whole script: the text written back for Dockerfile text t, go.mod g
Patch(t, g) ==
    LET s2 == Rewrite(t, g)
    IN IF ~HasUser(s2) THEN Inject(s2) ELSE s2

(***************************************************************************)
(* SpecPatch: a Dockerfile text is put together from pieces, then the      *)
(* patcher is run on it, and again on its own output.                      *)
(***************************************************************************)
MaxChunks == 4
MaxRuns == 2

Pieces ==
    { <<"FROM", " ", "golang:", "1.20", "-alpine", " ", "AS", " ", "builder">>,
      <<"\n">>,
      <<" ">>,
      <<"USER", " ", "app">>,
      <<"ENTRYPOINT", " ", "[\"picoclaw\"]">>,
      <<"RUN">>,
      <<"/root">>,
      <<"/.picoclaw">> }

GoMods ==
    { Absent,
      <<"module", " ", "picoclaw", "\n">>,
      <<"module", " ", "picoclaw", "\n", "\n", "go", " ", "1.22", "\n">> }

PatchInit ==
    /\ s = <<>>
    /\ gomod \in GoMods
    /\ chunks = 0
    /\ runs = 0
    /\ original = <<>>
    /\ after_first = <<>>

PatchIdle ==
    /\ s = <<>>
    /\ gomod = Absent
    /\ chunks = 0
    /\ runs = 0
    /\ original = <<>>
    /\ after_first = <<>>

\* the Dockerfile as found on disk: one more piece of text
AppendPiece ==
    /\ runs = 0
    /\ chunks < MaxChunks
    /\ \E p \in Pieces : s' = s \o p
    /\ chunks' = chunks + 1
    /\ UNCHANGED <<gomod, runs, original, after_first, checker_vars, flatten_vars>>

\* one run of the script: read, patch, write back
RunPatcher ==
    /\ runs < MaxRuns
    /\ s' = Patch(s, gomod)
    /\ runs' = runs + 1
    /\ original' = IF runs = 0 THEN s ELSE original
    /\ after_first' = IF runs = 0 THEN s' ELSE after_first
    /\ UNCHANGED <<gomod, chunks, checker_vars, flatten_vars>>

(***************************************************************************)
(* validate_config.py: Python values and the pure helpers of main().       *)
(***************************************************************************)
Bool(b) == [t |-> "bool", b |-> b]
\* a response text: an optional ``` fence around a payload that json.loads
\* turns into a value, or rejects (NotJson)
NotJson == [t |-> "notjson"]
Reply(fence, payload) ==
    [t |-> "str", empty |-> FALSE, fence |-> fence, payload |-> payload]
\* a replacement text: what ast.parse and the substring tests see of it
Code(parses, has, opens, closes) ==
    [t |-> "str", empty |-> FALSE, parses |-> parses, has |-> has,
     opens |-> opens, closes |-> closes]

\* bool(v)
Truthy(v) ==
    CASE v.t = "none" -> FALSE
      [] v.t = "bool" -> v.b
      [] v.t = "num" -> v.n # 0
      [] v.t = "str" -> ~v.empty
      [] v.t = "list" -> Len(v.l) > 0
      [] v.t = "dict" -> Len(v.d) > 0
      [] OTHER -> FALSE

HasKey(v, k) == \E i \in 1..Len(v.d) : v.d[i][1] = k
\* dict.get(k, default)
Get(v, k, default) ==
    IF HasKey(v, k) THEN v.d[CHOOSE i \in 1..Len(v.d) : v.d[i][1] = k][2]
    ELSE default
\* set(d.keys())
KeySet(v) == {v.d[i][1] : i \in 1..Len(v.d)}

\* the outcome of evaluating an expression: a value, or an exception
Ok(v) == [exc |-> "none", v |-> v]
Raise(e) == [exc |-> e, v |-> PyNone]

\* x[k] for a string k
GetItemStr(x, k) ==
    IF x.exc # "none" THEN x
    ELSE IF x.v.t = "dict"
         THEN IF HasKey(x.v, k) THEN Ok(Get(x.v, k, PyNone)) ELSE Raise("KeyError")
         ELSE Raise("TypeError")
\* x[0]
GetItem0(x) ==
    IF x.exc # "none" THEN x
    ELSE CASE x.v.t = "list" ->
                IF Len(x.v.l) > 0 THEN Ok(x.v.l[1]) ELSE Raise("IndexError")
           [] x.v.t = "dict" -> Raise("KeyError")
           [] x.v.t = "str" -> IF x.v.empty THEN Raise("IndexError") ELSE Ok(x.v)
           [] OTHER -> Raise("TypeError")
\* len(x)
HasLen(v) == v.t \in {"str", "list", "dict"}

MAX_RETRIES == 3
INITIAL_BACKOFF_S == 5
BACKOFF_MULTIPLIER == 3

Unset == "<unset>"
Files == {"server.py", "index.html"}

\* os.environ.get(name, default)
EnvGet(value, default) == IF value = Unset THEN default ELSE value
\* str.strip() on the environment values of the model
Strip(str) == IF str \in {"", " ", "   "} THEN "" ELSE str
\* api_key = os.environ.get("LLM_API_KEY", "").strip()
ApiKey == Strip(EnvGet(env_api_key, ""))
\* upstream_ref = os.environ.get("UPSTREAM_VERSION", "main").strip() or "main"
UpstreamRef ==
    LET r == Strip(EnvGet(env_ref, "main")) IN IF r = "" THEN "main" ELSE r

\* a fallback that fetches the same ref again
FallbackRefSameRef == UpstreamRef

\* line 356: UPSTREAM_CONFIG_URL_TPL.format(ref="main")
FallbackRef == "main"

\* set_output(name, value): one line appended when GITHUB_OUTPUT is set
SetOutput(out, name, value) ==
    IF gh_output THEN Append(out, <<name, value>>) ELSE out

\* extract_default_config_json(server_src): None unless the text parses,
\* defines default_config and its return expression is a literal
extract_default_config_json(src) ==
    IF src.parses /\ src.has_default_config /\ src.ret.t # "expr"
    THEN src.ret ELSE PyNone

\* get_config_analysis(upstream, current_defaults)
get_config_analysis(upstream, current_defaults) ==
    LET upstream_keys == DOMAIN _flatten(upstream, "")
        current_keys == DOMAIN _flatten(current_defaults, "")
    IN [t |-> "analysis",
        upstream_config |-> upstream,
        known_fields |-> current_keys,
        upstream_keys |-> upstream_keys,
        new_keys |-> upstream_keys \ current_keys]

\* the analysis main() builds itself when extraction failed
FallbackAnalysis(upstream) ==
    [t |-> "analysis",
     upstream_config |-> upstream,
     known_fields |-> {},
     upstream_keys |-> KeySet(upstream),
     new_keys |-> KeySet(upstream)]

\* extract_json_from_response(response): any exception gives None
extract_json_from_response(resp) ==
    IF resp.t = "str" /\ resp.payload.t # "notjson" THEN resp.payload ELSE PyNone

PyMarkers == <<"default_config", "SECRET_FIELDS", "Route">>
\* validate_python(src): the list of errors, or the exception it raises
validate_python(src) ==
    IF src.t # "str" THEN Raise("TypeError")
    ELSE IF ~src.parses THEN Ok(<<"Python syntax error">>)
    ELSE Ok(SelectSeq(PyMarkers, LAMBDA m : m \notin src.has))

Doctypes == {"<!DOCTYPE html>", "<!doctype html>", "<!Doctype html>"}
\* validate_html(src): the list of errors, or the exception it raises
validate_html(src) ==
    IF src.t # "str" THEN Raise("TypeError")
    ELSE LET e1 == IF "<!DOCTYPE html>" \notin src.has /\ src.has \cap Doctypes = {}
                   THEN <<"Missing <!DOCTYPE html>">> ELSE <<>>
             e2 == IF src.opens # src.closes
                   THEN <<"Unbalanced <script> tags">> ELSE <<>>
             e3 == IF "x-data=" \notin src.has
                   THEN <<"Missing Alpine.js x-data binding">> ELSE <<>>
             e4 == IF "x-model=" \notin src.has
                   THEN <<"Missing Alpine.js x-model binding">> ELSE <<>>
             e5 == IF "defaultConfig()" \notin src.has
                      /\ "function defaultConfig" \notin src.has
                   THEN <<"Missing defaultConfig() function">> ELSE <<>>
         IN Ok(e1 \o e2 \o e3 \o e4 \o e5)

(***************************************************************************)
(* The inputs of one run of main(): environment, disk, network.            *)
(***************************************************************************)
ApiKeys == {Unset, "   ", "sk-or-key"}
Refs == {Unset, "v0.2.0"}

\* server.py texts, by what ast.parse / ast.walk / ast.literal_eval find
ServerSrc(parses, has_default_config, ret) ==
    [parses |-> parses, has_default_config |-> has_default_config, ret |-> ret]
NonLiteral == [t |-> "expr"]
ConfigA == Dict(<< <<"a", Num(1)>> >>)
ConfigAB == Dict(<< <<"a", Num(1)>>, <<"b", Dict(<< <<"c", Num(2)>> >>)>> >>)
ServerSources ==
    { ServerSrc(FALSE, FALSE, NonLiteral),
      ServerSrc(TRUE, TRUE, NonLiteral),
      ServerSrc(TRUE, TRUE, Dict(<<>>)),
      ServerSrc(TRUE, TRUE, ConfigA),
      ServerSrc(TRUE, TRUE, ConfigAB) }

\* what fetch_url + json.loads give: an exception, or the JSON object of
\* config.example.json
FetchFailed == [t |-> "error"]
ConfigDotted == Dict(<< <<"a", Num(1)>>, <<"b.c", Num(2)>> >>)
Upstreams == {Dict(<<>>), ConfigA, ConfigAB, ConfigDotted}
FetchResults == {FetchFailed} \cup Upstreams

CheckerInit ==
    /\ pc = "start"
    /\ env_api_key \in ApiKeys
    /\ env_ref \in Refs
    /\ gh_output \in BOOLEAN
    /\ files_present \in SUBSET Files
    /\ server_src \in ServerSources
    /\ outputs = <<>>
    /\ exit_code = "none"
    /\ uncaught = "none"
    /\ fetches = <<>>
    /\ upstream_config = NotRun
    /\ files_read = FALSE
    /\ current_config = NotRun
    /\ analysis = NotRun
    /\ attempt = 0
    /\ backoff = 0
    /\ sleeps = <<>>
    /\ requests = 0
    /\ last_outcome = NotRun
    /\ retry_after_used = FALSE
    /\ llm_result = "none"
    /\ llm_error = "none"
    /\ error_file = FALSE
    /\ response = NotRun
    /\ result = NotRun
    /\ files_modified = FALSE
    /\ written = <<>>

CheckerIdle ==
    /\ pc = "idle"
    /\ env_api_key = Unset
    /\ env_ref = Unset
    /\ gh_output = FALSE
    /\ files_present = {}
    /\ server_src = ServerSrc(FALSE, FALSE, NonLiteral)
    /\ outputs = <<>>
    /\ exit_code = "none"
    /\ uncaught = "none"
    /\ fetches = <<>>
    /\ upstream_config = NotRun
    /\ files_read = FALSE
    /\ current_config = NotRun
    /\ analysis = NotRun
    /\ attempt = 0
    /\ backoff = 0
    /\ sleeps = <<>>
    /\ requests = 0
    /\ last_outcome = NotRun
    /\ retry_after_used = FALSE
    /\ llm_result = "none"
    /\ llm_error = "none"
    /\ error_file = FALSE
    /\ response = NotRun
    /\ result = NotRun
    /\ files_modified = FALSE
    /\ written = <<>>

env_vars == <<env_api_key, env_ref, gh_output, files_present, server_src>>
llm_vars == <<attempt, backoff, sleeps, requests, last_outcome,
              retry_after_used, llm_result, llm_error, response>>
apply_vars == <<result, files_modified, written>>
other_vars == <<env_vars, flatten_vars, patch_vars>>

\* main() returns code
Return(code) ==
    /\ pc' = "done"
    /\ exit_code' = code
    /\ uncaught' = "none"

\* an exception nothing catches ends the process
Crash(exc) ==
    /\ pc' = "done"
    /\ exit_code' = "exception"
    /\ uncaught' = exc

Goto(label) ==
    /\ pc' = label
    /\ UNCHANGED <<exit_code, uncaught>>

(***************************************************************************)
(* main(), step by step.                                                   *)
(***************************************************************************)
\* lines 339-345: the credential check
Start ==
    /\ pc = "start"
    /\ IF ApiKey = "" THEN Return("1") ELSE Goto("fetch")
    /\ UNCHANGED <<outputs, fetches, upstream_config, files_read,
                   current_config, analysis, error_file, llm_vars,
                   apply_vars, other_vars>>

\* lines 348-354: the first fetch, at the versioned URL
FetchUpstream ==
    /\ pc = "fetch"
    /\ fetches' = Append(fetches, UpstreamRef)
    /\ \E r \in FetchResults :
          IF r = FetchFailed
          THEN Goto("fallback") /\ UNCHANGED upstream_config
          ELSE Goto("read") /\ upstream_config' = r
    /\ UNCHANGED <<outputs, files_read, current_config, analysis,
                   error_file, llm_vars, apply_vars, other_vars>>

\* lines 355-363: the fetch at the fallback ref
FetchFallback ==
    /\ pc = "fallback"
    /\ fetches' = Append(fetches, FallbackRef)
    /\ \E r \in FetchResults :
          IF r = FetchFailed
          THEN /\ outputs' = SetOutput(SetOutput(outputs, "config_changed", "false"),
                                       "files_updated", "false")
               /\ Return("0")
               /\ UNCHANGED upstream_config
          ELSE /\ Goto("read")
               /\ upstream_config' = r
               /\ UNCHANGED outputs
    /\ UNCHANGED <<files_read, current_config, analysis, error_file,
                   llm_vars, apply_vars, other_vars>>

\* lines 366-372: read_file(SERVER_PY), read_file(INDEX_HTML)
ReadFiles ==
    /\ pc = "read"
    /\ files_read' = TRUE
    /\ IF Files \subseteq files_present THEN Goto("analyse") ELSE Return("1")
    /\ UNCHANGED <<outputs, fetches, upstream_config, current_config,
                   analysis, error_file, llm_vars, apply_vars, other_vars>>

\* call_llm lines 225-239: what the call sets up before its loop
EnterCallLlm ==
    /\ attempt' = 1
    /\ backoff' = INITIAL_BACKOFF_S
    /\ UNCHANGED <<sleeps, requests, last_outcome, retry_after_used,
                   llm_result, llm_error, response>>

\* lines 375-397: the analysis, the short cut, config_changed=true
Analyse ==
    /\ pc = "analyse"
    /\ LET cc == extract_default_config_json(server_src) IN
       /\ current_config' = cc
       /\ IF cc = PyNone
          THEN IF upstream_config.t # "dict"
               THEN /\ Crash("AttributeError")
                    /\ UNCHANGED <<analysis, outputs, llm_vars>>
               ELSE /\ analysis' = FallbackAnalysis(upstream_config)
                    /\ outputs' = SetOutput(outputs, "config_changed", "true")
                    /\ Goto("llm")
                    /\ EnterCallLlm
          ELSE LET a == get_config_analysis(upstream_config, cc) IN
               /\ analysis' = a
               /\ IF a.new_keys = {}
                  THEN /\ outputs' = SetOutput(SetOutput(outputs, "config_changed", "false"),
                                               "files_updated", "false")
                       /\ Return("0")
                       /\ UNCHANGED llm_vars
                  ELSE /\ outputs' = SetOutput(outputs, "config_changed", "true")
                       /\ Goto("llm")
                       /\ EnterCallLlm
    /\ UNCHANGED <<fetches, upstream_config, files_read, error_file,
                   apply_vars, other_vars>>

(***************************************************************************)
(* call_llm: what one request can meet, and the retry loop.                *)
(***************************************************************************)
NoHeader == [t |-> "none"]
Header(text) == [t |-> "str", empty |-> FALSE, text |-> text]
\* str.isdigit() / int() on the header values of the model
IsDigit(text) == text \in {"7"}
IntOf(text) == CASE text = "7" -> 7 [] OTHER -> 0

HttpError(status, retry_after) ==
    [t |-> "http", status |-> status, retry_after |-> retry_after]
NetworkError == [t |-> "network"]
HttpOk(body) == [t |-> "ok", body |-> body]

GoodPy == Code(TRUE, {"default_config", "SECRET_FIELDS", "Route"}, 0, 0)
BadSyntaxPy == Code(FALSE, {"default_config", "SECRET_FIELDS", "Route"}, 0, 0)
NoRoutePy == Code(TRUE, {"default_config", "SECRET_FIELDS"}, 0, 0)
GoodHtml ==
    Code(FALSE, {"<!DOCTYPE html>", "x-data=", "x-model=", "defaultConfig()"}, 1, 1)
UnbalancedHtml ==
    Code(FALSE, {"<!doctype html>", "x-data=", "x-model=", "function defaultConfig"}, 2, 1)
NoModelHtml ==
    Code(FALSE, {"<!DOCTYPE html>", "x-data=", "defaultConfig()"}, 1, 1)

\* one "server_py_changes" / "index_html_changes" object
Change(needed, code) ==
    Dict(<< <<"needed", Bool(needed)>>, <<"description", Reply(FALSE, NotJson)>>,
            <<"modified_code", code>> >>)
KeyAbsent == [t |-> "absent"]
ServerProposals ==
    { KeyAbsent, PyNone, Change(TRUE, GoodPy), Change(TRUE, BadSyntaxPy),
      Change(TRUE, NoRoutePy), Change(TRUE, PyNone), Change(FALSE, GoodPy),
      Change(TRUE, Num(5)) }
HtmlProposals ==
    { KeyAbsent, PyNone, Change(TRUE, GoodHtml), Change(TRUE, UnbalancedHtml),
      Change(TRUE, NoModelHtml), Change(TRUE, PyNone), Change(FALSE, GoodHtml),
      Change(TRUE, Num(5)) }

Entry(k, v) == IF v = KeyAbsent THEN <<>> ELSE << <<k, v>> >>
\* the JSON values a response text can hold
Proposal(changes_needed, sp, hp) ==
    Dict(<< <<"changes_needed", Bool(changes_needed)>> >>
         \o Entry("server_py_changes", sp) \o Entry("index_html_changes", hp))
Payloads ==
    {NotJson, PyNone, List(<<Num(1)>>), Dict(<<>>),
     Proposal(FALSE, Change(TRUE, GoodPy), KeyAbsent)}
    \cup {Proposal(TRUE, sp, hp) : sp \in ServerProposals, hp \in HtmlProposals}

\* body["choices"][0]["message"]["content"] of a well-formed API answer
Answer(content) ==
    Dict(<< <<"choices",
              List(<< Dict(<< <<"message",
                                Dict(<< <<"content", content>> >>)>> >>) >>)>> >>)
Contents ==
    {Reply(FALSE, p) : p \in Payloads}
    \cup {Reply(TRUE, Proposal(TRUE, Change(TRUE, GoodPy), Change(TRUE, GoodHtml)))}
    \cup {PyNone}
Bodies ==
    {NotJson, Dict(<<>>), Dict(<< <<"choices", List(<<>>)>> >>),
     Dict(<< <<"choices", PyNone>> >>), List(<<>>)}
    \cup {Answer(c) : c \in Contents}

Outcomes ==
    {HttpError(429, NoHeader), HttpError(429, Header("7")),
     HttpError(429, Header("Wed, 21 Oct 2026 07:28:00 GMT")),
     HttpError(503, NoHeader), HttpError(401, NoHeader), NetworkError}
    \cup {HttpOk(b) : b \in Bodies}

ReturnContent(v) == [k |-> "return", v |-> v]
RaiseOut(e) == [k |-> "raise", exc |-> e]
SleepFor(wait, by_header) == [k |-> "sleep", wait |-> wait, by_header |-> by_header]

\* lines 245-249: json.loads, the subscripts, len(content)
OnResponse(body) ==
    IF body.t = "notjson" THEN Raise("JSONDecodeError")
    ELSE LET c == GetItemStr(GetItemStr(GetItem0(GetItemStr(Ok(body), "choices")),
                                        "message"), "content")
         IN IF c.exc # "none" THEN c
            ELSE IF HasLen(c.v) THEN c ELSE Raise("TypeError")

\* lines 251-267: except urllib.error.HTTPError
OnHttpError(status, retry_after, b) ==
    IF status = 429
    THEN IF retry_after.t = "str" /\ ~retry_after.empty /\ IsDigit(retry_after.text)
         THEN SleepFor(IntOf(retry_after.text), TRUE)
         ELSE SleepFor(b, FALSE)
    ELSE IF 500 <= status /\ status < 600
         THEN SleepFor(b, FALSE)
         ELSE RaiseOut("HTTPError")

\* lines 273-275: the exceptions call_llm takes for a malformed response
MalformedCaught == {"JSONDecodeError", "KeyError", "IndexError"}

\* one pass of the try statement: return, raise, or sleep
AttemptEffect(o, b) ==
    CASE o.t = "http" -> OnHttpError(o.status, o.retry_after, b)
      [] o.t = "network" -> SleepFor(b, FALSE)
      [] OTHER ->
            LET c == OnResponse(o.body)
            IN IF c.exc = "none" THEN ReturnContent(c.v)
               ELSE IF c.exc \in MalformedCaught THEN SleepFor(b, FALSE)
               ELSE RaiseOut(c.exc)

\* NextBackoff that doubles instead
NextBackoffDoubling(b) == b * 2

\* line 277: backoff *= BACKOFF_MULTIPLIER
NextBackoff(b) == b * BACKOFF_MULTIPLIER

\* lines 241-279: one attempt of the loop, up to the next request or the
\* end of the call
CallLlmAttempt ==
    /\ pc = "llm"
    /\ \E o \in Outcomes :
        LET eff == AttemptEffect(o, backoff) IN
        /\ requests' = requests + 1
        /\ last_outcome' = o
        /\ CASE eff.k = "return" ->
                  /\ llm_result' = "returned"
                  /\ response' = eff.v
                  /\ pc' = "parse"
                  /\ UNCHANGED <<attempt, backoff, sleeps, retry_after_used, llm_error>>
             [] eff.k = "raise" ->
                  /\ llm_result' = "raised"
                  /\ llm_error' = eff.exc
                  /\ pc' = "llm_failed"
                  /\ UNCHANGED <<attempt, backoff, sleeps, retry_after_used, response>>
             [] OTHER ->
                  /\ sleeps' = Append(sleeps, eff.wait)
                  /\ retry_after_used' = (retry_after_used \/ eff.by_header)
                  /\ backoff' = NextBackoff(backoff)
                  /\ IF attempt < MAX_RETRIES
                     THEN /\ attempt' = attempt + 1
                          /\ pc' = "llm"
                          /\ UNCHANGED <<llm_result, llm_error>>
                     ELSE /\ llm_result' = "raised"
                          /\ llm_error' = "RuntimeError"
                          /\ pc' = "llm_failed"
                          /\ UNCHANGED attempt
                  /\ UNCHANGED response
    /\ UNCHANGED <<exit_code, uncaught, outputs, fetches, upstream_config,
                   files_read, current_config, analysis, error_file,
                   apply_vars, other_vars>>

\* lines 401-408: except Exception around call_llm
HandleLlmError ==
    /\ pc = "llm_failed"
    /\ error_file' = TRUE
    /\ outputs' = SetOutput(outputs, "files_updated", "false")
    /\ Return("0")
    /\ UNCHANGED <<fetches, upstream_config, files_read, current_config,
                   analysis, llm_vars, apply_vars, other_vars>>

\* lines 411-425: parse the response, the two early returns
ParseResponse ==
    /\ pc = "parse"
    /\ LET r == extract_json_from_response(response) IN
       /\ result' = r
       /\ IF ~Truthy(r)
          THEN IF response.t = "dict"
               THEN Crash("TypeError") /\ UNCHANGED outputs
               ELSE /\ outputs' = SetOutput(outputs, "files_updated", "false")
                    /\ Return("0")
          ELSE IF r.t # "dict"
          THEN Crash("AttributeError") /\ UNCHANGED outputs
          ELSE IF ~Truthy(Get(r, "changes_needed", Bool(FALSE)))
          THEN /\ outputs' = SetOutput(outputs, "files_updated", "false")
               /\ Return("0")
          ELSE Goto("apply_server") /\ UNCHANGED outputs
    /\ files_modified' = FALSE
    /\ UNCHANGED <<written, fetches, upstream_config, files_read,
                   current_config, analysis, error_file, llm_vars, other_vars>>

\* lines 428-439 and 442-453: apply one file's change
\* <<what happens, whether the file is written>>
\* file is "server.py" or "index.html": the validator is the file's own
ApplyChange(changes, file) ==
    IF changes.t # "dict" THEN <<"AttributeError", FALSE>>
    ELSE IF Truthy(Get(changes, "needed", PyNone))
            /\ Truthy(Get(changes, "modified_code", PyNone))
         THEN LET code == Get(changes, "modified_code", PyNone)
                  errors == IF file = "server.py" THEN validate_python(code)
                            ELSE validate_html(code)
              IN IF errors.exc # "none" THEN <<errors.exc, FALSE>>
                 ELSE <<"none", errors.v = <<>> >>
         ELSE <<"none", FALSE>>

\* lines 428-439
ApplyServer ==
    /\ pc = "apply_server"
    /\ LET a == ApplyChange(Get(result, "server_py_changes", Dict(<<>>)), "server.py") IN
       IF a[1] # "none"
       THEN Crash(a[1]) /\ UNCHANGED <<written, files_modified>>
       ELSE /\ Goto("apply_html")
            /\ written' = IF a[2] THEN Append(written, "server.py") ELSE written
            /\ files_modified' = (files_modified \/ a[2])
    /\ UNCHANGED <<result, outputs, fetches, upstream_config, files_read,
                   current_config, analysis, error_file, llm_vars, other_vars>>

\* lines 442-453
ApplyHtml ==
    /\ pc = "apply_html"
    /\ LET a == ApplyChange(Get(result, "index_html_changes", Dict(<<>>)), "index.html") IN
       IF a[1] # "none"
       THEN Crash(a[1]) /\ UNCHANGED <<written, files_modified>>
       ELSE /\ Goto("finish")
            /\ written' = IF a[2] THEN Append(written, "index.html") ELSE written
            /\ files_modified' = (files_modified \/ a[2])
    /\ UNCHANGED <<result, outputs, fetches, upstream_config, files_read,
                   current_config, analysis, error_file, llm_vars, other_vars>>

\* lines 456-468: files_updated, return 0
Finish ==
    /\ pc = "finish"
    /\ outputs' = SetOutput(outputs, "files_updated",
                            IF files_modified THEN "true" ELSE "false")
    /\ Return("0")
    /\ UNCHANGED <<fetches, upstream_config, files_read, current_config,
                   analysis, error_file, llm_vars, apply_vars, other_vars>>

(***************************************************************************)
(* The specifications.                                                     *)
(***************************************************************************)
Init == CheckerInit /\ FlattenIdle /\ PatchIdle

Next ==
    \/ Start
    \/ FetchUpstream
    \/ FetchFallback
    \/ ReadFiles
    \/ Analyse
    \/ CallLlmAttempt
    \/ HandleLlmError
    \/ ParseResponse
    \/ ApplyServer
    \/ ApplyHtml
    \/ Finish

Spec == Init /\ [][Next]_vars

InitFlatten == CheckerIdle /\ FlattenInit /\ PatchIdle
NextFlatten == Flatten
SpecFlatten == InitFlatten /\ [][NextFlatten]_vars

InitPatch == CheckerIdle /\ FlattenIdle /\ PatchInit
NextPatch == AppendPiece \/ RunPatcher
SpecPatch == InitPatch /\ [][NextPatch]_vars

(***************************************************************************)
(* Claims about main() (under Spec).                                       *)
(***************************************************************************)
CredentialMissing == ApiKey = ""
FileFoundMissing == files_read /\ ~(Files \subseteq files_present)
Emitted(name, value) == \E i \in 1..Len(outputs) : outputs[i] = <<name, value>>
NoChangeOutputs ==
    IF gh_output
    THEN << <<"config_changed", "false">>, <<"files_updated", "false">> >>
    ELSE <<>>

\* C1: every run ends with exit code 1 exactly when the credential is
\* missing or blank or a required local file is found missing, with exit
\* code 0 otherwise, and never by an uncaught exception.
C1_ExitCodeContract ==
    pc = "done" =>
        /\ exit_code \in {"0", "1"}
        /\ exit_code = "1" <=> (CredentialMissing \/ FileFoundMissing)

\* C2: whenever the computed new_keys is empty, in either branch of the
\* analysis, the run emits config_changed=false and files_updated=false,
\* exits 0 and never calls the completion endpoint.
C2_NoNewKeysShortCircuit ==
    (analysis.t = "analysis" /\ analysis.new_keys = {}) =>
        /\ requests = 0
        /\ ~Emitted("config_changed", "true")
        /\ pc = "done" => exit_code = "0" /\ outputs = NoChangeOutputs

ChangeKey(file) ==
    IF file = "server.py" THEN "server_py_changes" ELSE "index_html_changes"
\* the response parsed to an object that asks for changes
ChangesAsked ==
    /\ result.t = "dict"
    /\ Truthy(Get(result, "changes_needed", Bool(FALSE)))
\* the file's sub-change is flagged needed, carries non-empty replacement
\* text, and the file's validator finds no error in it
ValidProposal(file) ==
    /\ ChangesAsked
    /\ LET c == Get(result, ChangeKey(file), KeyAbsent) IN
       /\ c.t = "dict"
       /\ Truthy(Get(c, "needed", PyNone))
       /\ LET code == Get(c, "modified_code", PyNone) IN
          /\ code.t = "str"
          /\ ~code.empty
          /\ IF file = "server.py"
             THEN code.parses /\ \A i \in 1..Len(PyMarkers) : PyMarkers[i] \in code.has
             ELSE /\ code.has \cap Doctypes # {}
                  /\ code.opens = code.closes
                  /\ {"x-data=", "x-model="} \subseteq code.has
                  /\ code.has \cap {"defaultConfig()", "function defaultConfig"} # {}
Written(file) == \E i \in 1..Len(written) : written[i] = file

\* C3: a target file is overwritten only on a valid proposal for it, and
\* each file is decided on its own: whatever the other file's proposal is
\* (rejected, absent), a valid proposal is written.
C3_IndependentApplication ==
    /\ \A f \in Files : Written(f) => ValidProposal(f)
    /\ pc = "done" => \A f \in Files : ValidProposal(f) => Written(f)

\* C4: call_llm sends at most 3 requests; three retryable failures without a
\* Retry-After override wait exactly 5s, 15s, 45s in that order, and the
\* terminal error comes only after the three waits.
C4_BackoffSequence ==
    /\ requests <= 3
    /\ Len(sleeps) <= requests
    /\ (Len(sleeps) = 3 /\ ~retry_after_used) =>
            sleeps = <<5, 15, 45>> /\ llm_error = "RuntimeError"
    /\ llm_error = "RuntimeError" => Len(sleeps) = 3 /\ requests = 3

C4_Witness ==
    /\ llm_error = "RuntimeError"
    /\ ~retry_after_used
    /\ sleeps = <<5, 15, 45>>
    /\ last_outcome = NetworkError

\* body has the shape choices[0].message.content
WellShaped(body) ==
    /\ body.t = "dict" /\ HasKey(body, "choices")
    /\ LET ch == Get(body, "choices", PyNone) IN
       /\ ch.t = "list" /\ Len(ch.l) > 0
       /\ ch.l[1].t = "dict" /\ HasKey(ch.l[1], "message")
       /\ LET m == Get(ch.l[1], "message", PyNone) IN
          m.t = "dict" /\ HasKey(m, "content")
\* the failures the claim calls retryable
RetryableAsClaimed(o) ==
    \/ o.t = "http" /\ (o.status = 429 \/ (500 <= o.status /\ o.status < 600))
    \/ o.t = "network"
    \/ o.t = "ok" /\ ~WellShaped(o.body)
OtherClientError(o) ==
    o.t = "http" /\ 400 <= o.status /\ o.status < 500 /\ o.status # 429

\* C5: while attempts remain, a failed attempt is followed by a further
\* attempt iff the failure is retryable (429, 5xx, network error, malformed
\* body); any other 4xx ends the call at once, with no wait.
C5_RetryIffRetryable ==
    (requests >= 1 /\ llm_result # "returned") =>
        /\ requests < MAX_RETRIES =>
              ((llm_result = "none" /\ attempt = requests + 1)
                  <=> RetryableAsClaimed(last_outcome))
        /\ OtherClientError(last_outcome) =>
              llm_result = "raised" /\ Len(sleeps) = requests - 1

\* C9: a failed first fetch is followed by exactly one more fetch, at ref
\* "main"; if that fails too the run emits the two "false" outputs and exits
\* 0 without reading the local files, calling the LLM or writing a file; if
\* it succeeds the run stands where a successful first fetch leaves it.
C9_FallbackFetch ==
    /\ Len(fetches) <= 2
    /\ pc = "fallback" => fetches = <<UpstreamRef>> /\ upstream_config = NotRun
    /\ (Len(fetches) = 1 /\ pc # "fallback") => upstream_config \in Upstreams
    /\ Len(fetches) = 2 =>
        /\ fetches = <<UpstreamRef, "main">>
        /\ upstream_config = NotRun =>
              /\ pc = "done"
              /\ exit_code = "0"
              /\ outputs = NoChangeOutputs
              /\ ~files_read
              /\ requests = 0
              /\ written = <<>>
        /\ upstream_config # NotRun => upstream_config \in Upstreams
    /\ pc = "read" =>
        /\ upstream_config \in Upstreams
        /\ outputs = <<>> /\ exit_code = "none" /\ uncaught = "none"
        /\ ~files_read /\ current_config = NotRun /\ analysis = NotRun
        /\ requests = 0 /\ sleeps = <<>> /\ llm_result = "none"
        /\ result = NotRun /\ written = <<>> /\ ~error_file

C9_Witness ==
    /\ fetches = <<"v0.2.0", "main">>
    /\ upstream_config = NotRun
    /\ pc = "done"
    /\ gh_output
    /\ outputs = << <<"config_changed", "false">>, <<"files_updated", "false">> >>

\* C10: at the end of every run, files_updated=true has been emitted iff at
\* least one of the two target files was overwritten during the run.
C10_FilesUpdatedIffWritten ==
    (pc = "done" /\ gh_output) =>
        (Emitted("files_updated", "true") <=> written # <<>>)

\* what get_config_analysis computes for the upstream config against empty
\* local defaults
AgainstEmptyDefaults == get_config_analysis(upstream_config, Dict(<<>>))
\* main() has entered call_llm
ProceededToLlm == pc = "llm" \/ requests >= 1

\* C11: when extraction of the local default configuration fails, the
\* analysis has an empty known-key set, its upstream_keys and new_keys are
\* both the flattened dotted-path key set that get_config_analysis computes
\* for the upstream config against empty local defaults, and the run does
\* not abort but proceeds to the LLM call.
C11_ExtractionFailedAnalysis ==
    current_config = PyNone =>
        /\ analysis.t = "analysis"
        /\ analysis.known_fields = {}
        /\ analysis.upstream_keys = AgainstEmptyDefaults.upstream_keys
        /\ analysis.new_keys = AgainstEmptyDefaults.new_keys
        /\ uncaught = "none" \/ requests >= 1
        /\ ProceededToLlm

(***************************************************************************)
(* Claims about the Dockerfile patcher (under SpecPatch).                  *)
(***************************************************************************)
\* C6: the patcher is idempotent: run on its own output, with the same
\* go.mod, it changes nothing.
C6_Idempotent == runs >= 2 => s = after_first

C6_Witness ==
    /\ runs = 2
    /\ s = after_first
    /\ ~HasUser(original)
    /\ Len(after_first) = Len(original) + Len(InjectBlock)
    /\ \E i \in 1..Len(s) : s[i] = "1.22"

\* the line of text t that starts at token i
LineAt(t, i) ==
    LET stop == CHOOSE j \in i..(Len(t) + 1) :
                    /\ \A k \in i..(j - 1) : t[k] # "\n"
                    /\ (j = Len(t) + 1 \/ t[j] = "\n")
    IN Slice(t, i, stop - 1)
LineStartsOf(t) == {i \in 1..Len(t) : i = 1 \/ t[i - 1] = "\n"}
\* a line holding a USER directive: indentation, USER, a blank
IsUserLine(line) ==
    \E u \in 1..Len(line) :
        /\ \A k \in 1..(u - 1) : line[k] = " "
        /\ line[u] = "USER"
        /\ u < Len(line) /\ line[u + 1] = " "
\* the line ENTRYPOINT ["picoclaw"], indented or followed by blanks or not
IsEntrypointLine(line) ==
    \E e, p \in 1..Len(line) :
        /\ e + 1 < p
        /\ \A k \in 1..(e - 1) : line[k] = " "
        /\ line[e] = "ENTRYPOINT"
        /\ \A k \in (e + 1)..(p - 1) : line[k] = " "
        /\ line[p] = "[\"picoclaw\"]"
        /\ \A k \in (p + 1)..Len(line) : line[k] = " "

\* C7: the block is injected exactly when the text has no USER directive and
\* has the ENTRYPOINT ["picoclaw"] line; then it is inserted once, immediately
\* before that line, every other line keeping its content and order;
\* otherwise nothing is injected.
C7_InjectBeforeEntrypoint ==
    runs >= 1 =>
        LET t == Rewrite(original, gomod)
            user == \E i \in LineStartsOf(t) : IsUserLine(LineAt(t, i))
            entry == {i \in LineStartsOf(t) : IsEntrypointLine(LineAt(t, i))}
        IN after_first =
              IF ~user /\ entry # {}
              THEN LET p == CHOOSE i \in entry : \A j \in entry : i <= j
                   IN Slice(t, 1, p - 1) \o InjectBlock \o Slice(t, p, Len(t))
              ELSE t

(***************************************************************************)
(* Claims about _flatten (under SpecFlatten).                              *)
(***************************************************************************)
MaxKeyLen == 3

KeyChars == {"a", "b", "."}
RECURSIVE StringsOfLen(_)
StringsOfLen(n) ==
    IF n = 0 THEN {""} ELSE {x \o c : x \in StringsOfLen(n - 1), c \in KeyChars}
KeyStrings == UNION {StringsOfLen(n) : n \in 0..MaxKeyLen}
\* the strings that contain a '.'
Dotted == {k \in {x \o "." \o y : x, y \in KeyStrings} : Len(k) <= MaxKeyLen}

RECURSIVE LeafPaths(_)
\* the leaves of a nested object, each as its sequence of keys from the root
LeafPaths(obj) ==
    IF obj.t = "dict"
    THEN UNION {{<<obj.d[i][1]>> \o q : q \in LeafPaths(obj.d[i][2])} : i \in 1..Len(obj.d)}
    ELSE {<<>>}
RECURSIVE LeafAt(_, _)
LeafAt(obj, path) ==
    IF path = <<>> THEN obj ELSE LeafAt(Get(obj, Head(path), PyNone), Tail(path))
RECURSIVE DotJoin(_)
\* ".".join(path)
DotJoin(path) ==
    IF Len(path) = 0 THEN ""
    ELSE IF Len(path) = 1 THEN path[1]
    ELSE path[1] \o "." \o DotJoin(Tail(path))
RECURSIVE AllKeys(_)
AllKeys(obj) ==
    IF obj.t = "dict"
    THEN KeySet(obj) \cup UNION {AllKeys(obj.d[i][2]) : i \in 1..Len(obj.d)}
    ELSE {}
\* every key of the object, at every level, is non-empty and free of '.'
PlainKeys(obj) == \A k \in AllKeys(obj) : k # "" /\ k \notin Dotted

OneEntryPerLeaf(obj, items) ==
    LET leaves == LeafPaths(obj) IN
    /\ DOMAIN items = {DotJoin(q) : q \in leaves}
    /\ Cardinality(DOMAIN items) = Cardinality(leaves)
    /\ \A q \in leaves : items[DotJoin(q)] = LeafAt(obj, q)

\* C8 as stated: for any nested object, _flatten has exactly one entry per
\* leaf, keyed by the leaf's dot-joined path and holding its value, lists
\* being leaves; also when keys contain '.' or nested mappings are empty.
C8_OneEntryPerLeaf ==
    fflat # NotRun => OneEntryPerLeaf(fobj, fflat.items)

\* C8 amended: the same, for every nested object whose keys are all
\* non-empty and free of '.' (empty nested mappings included).
C8_OneEntryPerLeafPlainKeys ==
    (fflat # NotRun /\ PlainKeys(fobj)) => OneEntryPerLeaf(fobj, fflat.items)

C8_Witness ==
    /\ fflat # NotRun
    /\ PlainKeys(fobj)
    /\ DOMAIN fflat.items = {"a.b"}
    /\ fflat.items["a.b"] = List(<<Num(1), Num(2)>>)
    /\ \E i \in 1..Len(fobj.d) : fobj.d[i][2] = Dict(<<>>)

====
